---- MODULE Spec2Model ----
(***************************************************************************)
(* Background worker of the extension: the refreshData poll of the two     *)
(* sources (GitHub column cards, unread Gmail messages) with its persisted *)
(* id snapshots, and the reminder alarms of the to-do list.                *)
(*                                                                         *)
(* Strings the code parses (column ids, alarm names) are sequences of      *)
(* one-character strings; strings it only builds are TLA+ strings.         *)
(***************************************************************************)
EXTENDS Integers, Sequences, FiniteSets, TLC

VARIABLES
    server,          \* per source: ids of the items present at the source, newest first
    snapshot,        \* chrome.storage.local: lastKnownIssues / lastKnownEmails
    githubSettings,  \* what getGitHubSettings() resolves to
    gmailAuth,       \* whether getAuthToken({interactive: false}) yields a token
    tick,            \* per listener invocation: position and locals of the refreshData branch
    known,           \* history: per source, ids committed to the snapshot and at the source ever since
    escaped,         \* an error left the onAlarm listener uncaught
    todos,           \* the stored to-do list, as getTodos() resolves it
    alarms,          \* chrome.alarms: the live reminder alarms, {name, scheduledTime}
    now,             \* Date.now()
    call,            \* per caller: position and locals of a reminder service call
    handler,         \* position and locals of handleReminderAlarm
    committed,       \* history: per source, the id list last handed to chrome.storage.local.set
    panel,           \* position and locals of the to-do panel's handler in progress
    boot,            \* installation, and history: refreshData alarms fired, polls begun
    pager            \* fetchProjectV2Issues: position and locals of the pagination loop

pollVars == <<server, snapshot, githubSettings, gmailAuth, tick, known, committed>>
auxVars == <<panel, boot, pager>>
remVars == <<todos, alarms, now, call, handler>>
vars == <<server, snapshot, githubSettings, gmailAuth, tick, known, escaped,
          todos, alarms, now, call, handler, committed, panel, boot, pager>>

----------------------------------------------------------------------------
(* The universe of the model *)

\* Item ids of either source
Ids == {"a", "b"}
Sources == {"github", "gmail"}
\* Listener invocations that can exist side by side.
Procs == {1, 2}

----------------------------------------------------------------------------
(* JavaScript helpers *)

Range(s) == {s[i] : i \in 1..Len(s)}

\* Array.prototype.includes
Includes(arr, x) == \E i \in 1..Len(arr) : arr[i] = x

\* Array.prototype.map(i => i.id)
MapId(items) == [i \in 1..Len(items) |-> items[i].id]

RECURSIVE SplitAcc(_, _, _, _, _)
SplitAcc(s, sep, i, cur, acc) ==
    IF i > Len(s) THEN Append(acc, cur)
    ELSE IF s[i] = sep THEN SplitAcc(s, sep, i + 1, <<>>, Append(acc, cur))
    ELSE SplitAcc(s, sep, i + 1, Append(cur, s[i]), acc)

\* String.prototype.split(sep): "".split(sep) is [""]
Split(s, sep) == SplitAcc(s, sep, 1, <<>>, <<>>)

\* !s for a string: the empty string is falsy
Falsy(s) == s = <<>>

----------------------------------------------------------------------------
(* Persisted snapshots *)

Absent == [kind |-> "absent", ids |-> <<>>]
NotArray == [kind |-> "object", ids |-> <<>>]
ArrayOf(ids) == [kind |-> "array", ids |-> ids]

\* Array.isArray(v) ? v : []
LastKnownIds(v) == IF v.kind = "array" THEN v.ids ELSE <<>>

----------------------------------------------------------------------------
(* The sources *)

IssueOf(id) == [id |-> id, title |-> "issue " \o id]
EmailOf(id) == [id |-> id, from |-> "sender " \o id, subject |-> "subject " \o id]

\* Settings of the form
NoToken == <<>>
SomeToken == <<"t">>
NoColumn == <<>>
ClassicColumn == <<"4", "2">>
V2Column == <<"1", ":", "S", ":", "o">>

SettingsSet == [token : {NoToken, SomeToken}, columnId : {NoColumn, ClassicColumn, V2Column}]

\* fetchColumnCards dispatches on the shape of columnId
IsV2(settings) == Len(Split(settings.columnId, ":")) = 3

\* The lists a successful fetchColumnCards can return: the V2 query returns the
\* column's items; the classic route skips every card whose issue request is not ok.
FetchColumnCardsResults(settings, present) ==
    IF IsV2(settings)
    THEN {[i \in 1..Len(present) |-> IssueOf(present[i])]}
    ELSE {LET kept == SelectSeq(present, LAMBDA id : id \notin failed)
          IN [i \in 1..Len(kept) |-> IssueOf(kept[i])] : failed \in SUBSET Range(present)}

\* The lists a successful fetchEmails can return: a message whose detail request
\* fails (or does not parse) maps to null and is filtered out.
FetchEmailsResults(present) ==
    {LET kept == SelectSeq(present, LAMBDA id : id \notin failed)
     IN [i \in 1..Len(kept) |-> EmailOf(kept[i])] : failed \in SUBSET Range(present)}

----------------------------------------------------------------------------
(* Change detection and the summarising notification *)

\* Mutant: the filter only looks at the most recently stored id
NewItemsLastOnly(items, lastKnownIds) ==
    SelectSeq(items, LAMBDA i : lastKnownIds = <<>> \/ lastKnownIds[1] # i.id)

\* items.filter(i => !lastKnownIds.includes(i.id))
NewItems(items, lastKnownIds) ==
    SelectSeq(items, LAMBDA i : ~Includes(lastKnownIds, i.id))

\* A template literal is the sequence of its parts (accents are dropped).
\* title: 'Nouvelle tache GitHub' or `${newIssues.length} nouvelles taches GitHub`
GitHubTitle(newIssues) ==
    IF Len(newIssues) = 1 THEN <<"Nouvelle tache GitHub">>
    ELSE <<ToString(Len(newIssues)), " nouvelles taches GitHub">>

\* Mutant: the suffix counts all the new issues, the first included
GitHubMessageCountAll(newIssues) ==
    IF Len(newIssues) = 1 THEN <<newIssues[1].title>>
    ELSE <<newIssues[1].title, " et ", ToString(Len(newIssues)), " autres...">>

\* message: newIssues[0].title or `${newIssues[0].title} et ${newIssues.length - 1} autres...`
GitHubMessage(newIssues) ==
    IF Len(newIssues) = 1 THEN <<newIssues[1].title>>
    ELSE <<newIssues[1].title, " et ", ToString(Len(newIssues) - 1), " autres...">>

\* title: 'Nouveau mail recu' or `${newEmails.length} nouveaux mails`
GmailTitle(newEmails) ==
    IF Len(newEmails) = 1 THEN <<"Nouveau mail recu">>
    ELSE <<ToString(Len(newEmails)), " nouveaux mails">>

\* message: `De: ${from}\n${subject}` or `Dernier de: ${from}`
GmailMessage(newEmails) ==
    IF Len(newEmails) = 1 THEN <<"De: ", newEmails[1].from, "\n", newEmails[1].subject>>
    ELSE <<"Dernier de: ", newEmails[1].from>>

NoNotification == [title |-> <<>>, message |-> <<>>]

----------------------------------------------------------------------------
(* Reminder alarms: names and times *)

\* Clock values are minutes times MsPerMinute; the clock moves by quarters of an hour
MsPerMinute == 60 * 1000
Quarter == 15 * MsPerMinute
\* Last clock value, in quarters
MaxClock == 2
\* Longest list of lead times of one call
MaxLeads == 2

TaskIds == {<<"1">>}
LeadTimes == {15, 30, 60}
StartDates == {4 * Quarter, 5 * Quarter}
LeadLists == UNION {[1..n -> LeadTimes] : n \in 0..MaxLeads}
Callers == {1, 2}

Digit(d) == CASE d = 0 -> "0" [] d = 1 -> "1" [] d = 2 -> "2" [] d = 3 -> "3"
              [] d = 4 -> "4" [] d = 5 -> "5" [] d = 6 -> "6" [] d = 7 -> "7"
              [] d = 8 -> "8" [] d = 9 -> "9"

RECURSIVE NumToStr(_)
\* `${n}` for a non-negative integer
NumToStr(n) == IF n < 10 THEN <<Digit(n)>> ELSE NumToStr(n \div 10) \o <<Digit(n % 10)>>

DigitValue(ch) == CASE ch = "0" -> 0 [] ch = "1" -> 1 [] ch = "2" -> 2 [] ch = "3" -> 3
                    [] ch = "4" -> 4 [] ch = "5" -> 5 [] ch = "6" -> 6 [] ch = "7" -> 7
                    [] ch = "8" -> 8 [] ch = "9" -> 9 [] OTHER -> -1

RECURSIVE ParseDigits(_, _, _)
ParseDigits(s, i, acc) ==
    IF i > Len(s) \/ DigitValue(s[i]) < 0 THEN acc
    ELSE ParseDigits(s, i + 1, 10 * acc + DigitValue(s[i]))

\* parseInt(s) of an unsigned string: the value of the leading digits, NaN without any
ParseInt(s) ==
    IF s = <<>> \/ DigitValue(s[1]) < 0 THEN [nan |-> TRUE, value |-> 0]
    ELSE [nan |-> FALSE, value |-> ParseDigits(s, 1, 0)]

ReminderPrefix == <<"r", "e", "m", "i", "n", "d", "e", "r", "_">>

\* `reminder_${todoId}_${reminderMinutes}`
AlarmName(todoId, reminderMinutes) ==
    ReminderPrefix \o todoId \o <<"_">> \o NumToStr(reminderMinutes)

\* String.prototype.startsWith
StartsWith(s, prefix) ==
    Len(s) >= Len(prefix) /\ SubSeq(s, 1, Len(prefix)) = prefix

\* Mutant: the lead time is taken as seconds
ReminderTimeSeconds(startDate, reminderMinutes) == startDate - (reminderMinutes * 1000)

\* startDate - (reminderMinutes * 60 * 1000)
ReminderTime(startDate, reminderMinutes) == startDate - (reminderMinutes * 60 * 1000)

\* Mutant: a reminder due exactly now is still scheduled
IsPastStrict(reminderTime, clock) == reminderTime < clock

\* if (reminderTime <= now) return;
IsPast(reminderTime, clock) == reminderTime <= clock

\* Mutant: only a name equal to the prefix of the task is selected
TodoAlarmsExact(all, todoId) == {a \in all : a.name = ReminderPrefix \o todoId}

\* alarms.filter(alarm => alarm.name.startsWith(`reminder_${todoId}_`))
TodoAlarms(all, todoId) ==
    {a \in all : StartsWith(a.name, ReminderPrefix \o todoId \o <<"_">>)}

\* Mutant: an alarm of the same name is kept next to the new one
CreateAlarmKeep(all, name, when) == all \cup {[name |-> name, when |-> when]}

\* chrome.alarms.create(name, { when }): an alarm of that name is replaced
CreateAlarm(all, name, when) ==
    {a \in all : a.name # name} \cup {[name |-> name, when |-> when]}

\* chrome.alarms.clear(name)
ClearAlarm(all, name) == {a \in all : a.name # name}

\* formatReminderTime(minutes)
FormatReminderTime(minutes) ==
    IF minutes.nan THEN <<"NaN", " jour">>
    ELSE IF minutes.value < 60
         THEN <<ToString(minutes.value), " minute", IF minutes.value > 1 THEN "s" ELSE "">>
    ELSE IF minutes.value < 1440
         THEN <<ToString(minutes.value \div 60), " heure",
                IF minutes.value \div 60 > 1 THEN "s" ELSE "">>
    ELSE <<ToString(minutes.value \div 1440), " jour",
           IF minutes.value \div 1440 > 1 THEN "s" ELSE "">>

\* The stored to-do list
\* startDate 0 stands for no start date
NoTodo == [exists |-> FALSE, completed |-> FALSE, startDate |-> 0, reminders |-> <<>>]
Todo(done) == [exists |-> TRUE, completed |-> done, startDate |-> 0, reminders |-> <<>>]
TitleOf(todoId) == <<"task ">> \o todoId

\* todos.find(t => t.id === todoId)
FindTodo(list, todoId) == IF todoId \in DOMAIN list THEN list[todoId] ELSE NoTodo

IdleCall == [pc |-> "idle", op |-> "none", todoId |-> <<>>, startDate |-> 0,
             reminders |-> <<>>, i |-> 1, todoAlarms |-> {}, cleared |-> 0,
             dropped |-> 0, clean |-> TRUE]

IdleHandler == [pc |-> "idle", alarmName |-> <<>>, todoId |-> <<>>,
                reminderMinutes |-> [nan |-> TRUE, value |-> 0],
                todo |-> NoTodo, ownerAtRead |-> NoTodo,
                sent |-> 0, message |-> <<>>]

\* No handler of the panel in progress
IdlePanel == [pc |-> "idle", op |-> "none", id |-> <<>>, wasCompleted |-> FALSE]

\* Before chrome.runtime.onInstalled
NotInstalled == [installed |-> FALSE, nextTick |-> 0, ticks |-> 0, polls |-> 0]

NeverCommitted == [any |-> FALSE, ids |-> <<>>]

\* fetchProjectV2Issues is not running; its locals as they are initialised
IdlePager == [pc |-> "idle", issues |-> 0, hasNextPage |-> TRUE,
              totalItemsScanned |-> 0, pagesWithoutMatches |-> 0]

RemInit ==
    /\ todos = [id \in TaskIds |-> NoTodo]
    /\ alarms = {}
    /\ now = 0
    /\ call = [c \in Callers |-> IdleCall]
    /\ handler = IdleHandler
    /\ panel = IdlePanel
    /\ boot = NotInstalled
    /\ pager = IdlePager

----------------------------------------------------------------------------
(* The refreshData branch of the onAlarm listener *)

\* Locals of one source's cycle
FreshCycle == [items |-> <<>>, lastKnownIds |-> <<>>, newItems |-> <<>>,
               sent |-> 0, notif |-> NoNotification, fetched |-> FALSE,
               outcome |-> "none", before |-> Absent]

\* ghOutcome: how checkGitHubUpdates of this invocation ended
Idle == [pc |-> "idle", cyc |-> FreshCycle, ghOutcome |-> "none"]

Init ==
    /\ server = [s \in Sources |-> <<>>]
    /\ snapshot \in [Sources -> {Absent, NotArray}]
    /\ githubSettings \in SettingsSet
    /\ gmailAuth \in BOOLEAN
    /\ tick = [p \in Procs |-> Idle]
    /\ known = [s \in Sources |-> {}]
    /\ committed = [s \in Sources |-> NeverCommitted]
    /\ escaped = FALSE
    /\ RemInit

\* chrome.alarms fires refreshData: the listener calls checkGitHubUpdates, which
\* awaits getGitHubSettings. One invocation at a time: the 15 minute
\* period is coarser than a cycle.
RefreshAlarm(p) ==
    /\ \A q \in Procs : tick[q].pc = "idle"
    /\ p = 1
    /\ tick' = [tick EXCEPT ![p] = [Idle EXCEPT !.pc = "gh_settings",
                                                 !.cyc.before = snapshot["github"]]]
    /\ UNCHANGED <<server, snapshot, githubSettings, gmailAuth, known, escaped>>
    /\ UNCHANGED <<remVars, auxVars, committed>>

\* Mutant: only the token is required
GitHubConfiguredTokenOnly(settings) == ~Falsy(settings.token)

\* if (!settings.token || !settings.columnId) return;
GitHubConfigured(settings) == ~(Falsy(settings.token) \/ Falsy(settings.columnId))

GitHubSettingsRead(p) ==
    /\ tick[p].pc = "gh_settings"
    /\ IF GitHubConfigured(githubSettings)
       THEN tick' = [tick EXCEPT ![p].pc = "gh_fetch"]
       ELSE tick' = [tick EXCEPT ![p].pc = "gh_end", ![p].cyc.outcome = "skipped",
                                 ![p].ghOutcome = "skipped"]
    /\ UNCHANGED <<server, snapshot, githubSettings, gmailAuth, known, escaped>>
    /\ UNCHANGED <<remVars, auxVars, committed>>

\* Mutant: no try/catch, the rejection leaves checkGitHubUpdates and the listener
GitHubRethrow(p) ==
    /\ tick' = [tick EXCEPT ![p].pc = "rejected", ![p].cyc.outcome = "failed",
                            ![p].ghOutcome = "failed"]
    /\ escaped' = TRUE

\* catch (error) { console.error(...) }: the cycle ends, the listener goes on
GitHubCatch(p) ==
    /\ tick' = [tick EXCEPT ![p].pc = "gh_end", ![p].cyc.outcome = "failed",
                            ![p].ghOutcome = "failed"]
    /\ UNCHANGED escaped

\* await fetchColumnCards(settings): it throws or resolves to the issues
GitHubFetch(p) ==
    /\ tick[p].pc = "gh_fetch"
    /\ \/ GitHubCatch(p)
       \/ /\ \E issues \in FetchColumnCardsResults(githubSettings, server["github"]) :
                tick' = [tick EXCEPT ![p].pc = "gh_get", ![p].cyc.items = issues,
                                     ![p].cyc.fetched = TRUE]
          /\ UNCHANGED escaped
    /\ UNCHANGED <<server, snapshot, githubSettings, gmailAuth, known>>
    /\ UNCHANGED <<remVars, auxVars, committed>>

\* Mutant: a stored value that is no array is used as it is, the TypeError of
\* its includes ends the cycle in the catch
GitHubStorageGetStrict(p) ==
    /\ tick[p].pc = "gh_get"
    /\ IF snapshot["github"].kind = "array"
       THEN LET newIssues == NewItems(tick[p].cyc.items, snapshot["github"].ids)
            IN tick' = [tick EXCEPT ![p].cyc.lastKnownIds = snapshot["github"].ids,
                                    ![p].cyc.newItems = newIssues,
                                    ![p].pc = IF Len(newIssues) > 0 THEN "gh_notify" ELSE "gh_set"]
       ELSE tick' = [tick EXCEPT ![p].pc = "gh_end", ![p].cyc.outcome = "failed",
                                 ![p].ghOutcome = "failed"]
    /\ UNCHANGED <<server, snapshot, githubSettings, gmailAuth, known, escaped>>
    /\ UNCHANGED <<remVars, auxVars, committed>>

\* await chrome.storage.local.get('lastKnownIssues'), then the filter
GitHubStorageGet(p) ==
    /\ tick[p].pc = "gh_get"
    /\ LET lastKnownIds == LastKnownIds(snapshot["github"])
           newIssues == NewItems(tick[p].cyc.items, lastKnownIds)
       IN tick' = [tick EXCEPT ![p].cyc.lastKnownIds = lastKnownIds,
                               ![p].cyc.newItems = newIssues,
                               ![p].pc = IF Len(newIssues) > 0 THEN "gh_notify" ELSE "gh_set"]
    /\ UNCHANGED <<server, snapshot, githubSettings, gmailAuth, known, escaped>>
    /\ UNCHANGED <<remVars, auxVars, committed>>

\* Mutant: one notification per new issue
GitHubNotifyEach(p) ==
    /\ tick[p].pc = "gh_notify"
    /\ tick' = [tick EXCEPT ![p].pc = "gh_set",
                            ![p].cyc.sent = @ + Len(tick[p].cyc.newItems),
                            ![p].cyc.notif = [title |-> <<"Nouvelle tache GitHub">>,
                                              message |-> <<tick[p].cyc.newItems[1].title>>]]
    /\ UNCHANGED <<server, snapshot, githubSettings, gmailAuth, known, escaped>>
    /\ UNCHANGED <<remVars, auxVars, committed>>

\* await chrome.notifications.create(`github_${Date.now()}`, ...)
GitHubNotify(p) ==
    /\ tick[p].pc = "gh_notify"
    /\ tick' = [tick EXCEPT ![p].pc = "gh_set",
                            ![p].cyc.sent = @ + 1,
                            ![p].cyc.notif = [title |-> GitHubTitle(tick[p].cyc.newItems),
                                             message |-> GitHubMessage(tick[p].cyc.newItems)]]
    /\ UNCHANGED <<server, snapshot, githubSettings, gmailAuth, known, escaped>>
    /\ UNCHANGED <<remVars, auxVars, committed>>

\* Mutant: the new ids are merged into the stored list
CommittedMerged(old, currentIds) ==
    ArrayOf(LastKnownIds(old) \o SelectSeq(currentIds, LAMBDA id : ~Includes(LastKnownIds(old), id)))

\* What chrome.storage.local.set({ key: currentIds }) leaves under the key
Committed(old, currentIds) == ArrayOf(currentIds)

\* Mutant: both sources store under the key of the first
CommitSharedKey(src, currentIds) ==
    /\ snapshot' = [snapshot EXCEPT !["github"] = Committed(snapshot[src], currentIds)]
    /\ known' = [known EXCEPT ![src] = @ \cup (Range(currentIds) \cap Range(server[src]))]
    /\ committed' = [committed EXCEPT ![src] = [any |-> TRUE, ids |-> currentIds]]

\* History: the committed ids that are at the source join the known ones
Commit(src, currentIds) ==
    /\ snapshot' = [snapshot EXCEPT ![src] = Committed(snapshot[src], currentIds)]
    /\ known' = [known EXCEPT ![src] = @ \cup (Range(currentIds) \cap Range(server[src]))]
    /\ committed' = [committed EXCEPT ![src] = [any |-> TRUE, ids |-> currentIds]]

\* await chrome.storage.local.set({ lastKnownIssues: currentIds })
GitHubStorageSet(p) ==
    /\ tick[p].pc = "gh_set"
    /\ Commit("github", MapId(tick[p].cyc.items))
    /\ tick' = [tick EXCEPT ![p].pc = "gh_end", ![p].cyc.outcome = "committed",
                            ![p].ghOutcome = "committed"]
    /\ UNCHANGED <<server, githubSettings, gmailAuth, escaped>>
    /\ UNCHANGED <<remVars, auxVars>>

\* await checkGitHubUpdates() returned: checkGmailUpdates asks for a token silently
GmailBegin(p) ==
    /\ tick[p].pc = "gh_end"
    /\ tick' = [tick EXCEPT ![p].pc = "gm_token",
                            ![p].cyc = [FreshCycle EXCEPT !.before = snapshot["gmail"]]]
    /\ UNCHANGED <<server, snapshot, githubSettings, gmailAuth, known, escaped>>
    /\ UNCHANGED <<remVars, auxVars, committed>>

\* if (!token) return;
GmailToken(p) ==
    /\ tick[p].pc = "gm_token"
    /\ IF gmailAuth
       THEN tick' = [tick EXCEPT ![p].pc = "gm_fetch"]
       ELSE tick' = [tick EXCEPT ![p].pc = "gm_end", ![p].cyc.outcome = "skipped"]
    /\ UNCHANGED <<server, snapshot, githubSettings, gmailAuth, known, escaped>>
    /\ UNCHANGED <<remVars, auxVars, committed>>

GmailCatch(p) ==
    /\ tick' = [tick EXCEPT ![p].pc = "gm_end", ![p].cyc.outcome = "failed"]
    /\ UNCHANGED escaped

\* await fetchEmails(token, 'is:unread')
GmailFetch(p) ==
    /\ tick[p].pc = "gm_fetch"
    /\ \/ GmailCatch(p)
       \/ /\ \E emails \in FetchEmailsResults(server["gmail"]) :
                tick' = [tick EXCEPT ![p].pc = "gm_get", ![p].cyc.items = emails,
                                     ![p].cyc.fetched = TRUE]
          /\ UNCHANGED escaped
    /\ UNCHANGED <<server, snapshot, githubSettings, gmailAuth, known>>
    /\ UNCHANGED <<remVars, auxVars, committed>>

\* await chrome.storage.local.get('lastKnownEmails'), then the filter
GmailStorageGet(p) ==
    /\ tick[p].pc = "gm_get"
    /\ LET lastKnownIds == LastKnownIds(snapshot["gmail"])
           newEmails == NewItems(tick[p].cyc.items, lastKnownIds)
       IN tick' = [tick EXCEPT ![p].cyc.lastKnownIds = lastKnownIds,
                               ![p].cyc.newItems = newEmails,
                               ![p].pc = IF Len(newEmails) > 0 THEN "gm_notify" ELSE "gm_set"]
    /\ UNCHANGED <<server, snapshot, githubSettings, gmailAuth, known, escaped>>
    /\ UNCHANGED <<remVars, auxVars, committed>>

\* await chrome.notifications.create(`gmail_${Date.now()}`, ...)
GmailNotify(p) ==
    /\ tick[p].pc = "gm_notify"
    /\ tick' = [tick EXCEPT ![p].pc = "gm_set",
                            ![p].cyc.sent = @ + 1,
                            ![p].cyc.notif = [title |-> GmailTitle(tick[p].cyc.newItems),
                                             message |-> GmailMessage(tick[p].cyc.newItems)]]
    /\ UNCHANGED <<server, snapshot, githubSettings, gmailAuth, known, escaped>>
    /\ UNCHANGED <<remVars, auxVars, committed>>

\* await chrome.storage.local.set({ lastKnownEmails: currentIds })
GmailStorageSet(p) ==
    /\ tick[p].pc = "gm_set"
    /\ Commit("gmail", MapId(tick[p].cyc.items))
    /\ tick' = [tick EXCEPT ![p].pc = "gm_end", ![p].cyc.outcome = "committed"]
    /\ UNCHANGED <<server, githubSettings, gmailAuth, escaped>>
    /\ UNCHANGED <<remVars, auxVars>>

\* The listener's promise settles
ListenerReturn(p) ==
    /\ tick[p].pc = "gm_end"
    /\ tick' = [tick EXCEPT ![p] = Idle]
    /\ UNCHANGED <<server, snapshot, githubSettings, gmailAuth, known, escaped>>
    /\ UNCHANGED <<remVars, auxVars, committed>>

----------------------------------------------------------------------------
(* The world: items come and go at the sources *)

ItemArrives(src, id) ==
    /\ ~Includes(server[src], id)
    /\ server' = [server EXCEPT ![src] = <<id>> \o @]
    /\ UNCHANGED <<snapshot, githubSettings, gmailAuth, tick, known, escaped>>
    /\ UNCHANGED <<remVars, auxVars, committed>>

ItemLeaves(src, id) ==
    /\ Includes(server[src], id)
    /\ server' = [server EXCEPT ![src] = SelectSeq(@, LAMBDA x : x # id)]
    /\ known' = [known EXCEPT ![src] = @ \ {id}]
    /\ UNCHANGED <<snapshot, githubSettings, gmailAuth, tick, escaped>>
    /\ UNCHANGED <<remVars, auxVars, committed>>



Next ==
    \/ \E p \in Procs : RefreshAlarm(p)
    \/ \E p \in Procs : GitHubSettingsRead(p)
    \/ \E p \in Procs : GitHubFetch(p)
    \/ \E p \in Procs : GitHubStorageGet(p)
    \/ \E p \in Procs : GitHubNotify(p)
    \/ \E p \in Procs : GitHubStorageSet(p)
    \/ \E p \in Procs : GmailBegin(p)
    \/ \E p \in Procs : GmailToken(p)
    \/ \E p \in Procs : GmailFetch(p)
    \/ \E p \in Procs : GmailStorageGet(p)
    \/ \E p \in Procs : GmailNotify(p)
    \/ \E p \in Procs : GmailStorageSet(p)
    \/ \E p \in Procs : ListenerReturn(p)
    \/ \E src \in Sources, id \in Ids : ItemArrives(src, id)
    \/ \E src \in Sources, id \in Ids : ItemLeaves(src, id)

Spec == Init /\ [][Next]_vars

----------------------------------------------------------------------------
(* The to-do list in storage: the panel adds, toggles and deletes tasks *)

AddTodo(id) ==
    /\ ~todos[id].exists
    /\ todos' = [todos EXCEPT ![id] = Todo(FALSE)]
    /\ UNCHANGED <<pollVars, auxVars, escaped, alarms, now, call, handler>>

ToggleTodo(id) ==
    /\ todos[id].exists
    /\ todos' = [todos EXCEPT ![id] = Todo(~todos[id].completed)]
    /\ UNCHANGED <<pollVars, auxVars, escaped, alarms, now, call, handler>>

DeleteTodo(id) ==
    /\ todos[id].exists
    /\ todos' = [todos EXCEPT ![id] = NoTodo]
    /\ UNCHANGED <<pollVars, auxVars, escaped, alarms, now, call, handler>>

----------------------------------------------------------------------------
(* The reminder service: cancelReminders, scheduleReminder, rescheduleReminders *)

\* Mutant: rescheduleReminders goes straight to scheduling
RescheduleEntryNoCancel(c, todoId, startDate, reminders) ==
    [IdleCall EXCEPT !.pc = IF reminders = <<>> THEN "done" ELSE "schedule",
                     !.op = "reschedule", !.todoId = todoId,
                     !.startDate = startDate, !.reminders = reminders]

\* rescheduleReminders(todoId, startDate, reminders) starts with
\* await cancelReminders(todoId), which awaits chrome.alarms.getAll()
RescheduleEntry(c, todoId, startDate, reminders) ==
    [IdleCall EXCEPT !.pc = "getAll", !.op = "reschedule", !.todoId = todoId,
                     !.startDate = startDate, !.reminders = reminders]

\* One service call at a time
StartReschedule(c, todoId, startDate, reminders) ==
    /\ \A d \in Callers : call[d].pc = "idle"
    /\ c = 1
    /\ call' = [call EXCEPT ![c] = RescheduleEntry(c, todoId, startDate, reminders)]
    /\ UNCHANGED <<pollVars, auxVars, escaped, todos, alarms, now, handler>>

\* scheduleReminder(todoId, startDate, reminderMinutes) called on its own
StartSchedule(c, todoId, startDate, reminderMinutes) ==
    /\ \A d \in Callers : call[d].pc = "idle"
    /\ c = 1
    /\ call' = [call EXCEPT ![c] = [IdleCall EXCEPT !.pc = "schedule", !.op = "schedule",
                                                    !.todoId = todoId, !.startDate = startDate,
                                                    !.reminders = <<reminderMinutes>>]]
    /\ UNCHANGED <<pollVars, auxVars, escaped, todos, alarms, now, handler>>

\* cancelReminders(todoId) called on its own
StartCancel(c, todoId) ==
    /\ \A d \in Callers : call[d].pc = "idle"
    /\ c = 1
    /\ call' = [call EXCEPT ![c] = [IdleCall EXCEPT !.pc = "getAll", !.op = "cancel",
                                                    !.todoId = todoId]]
    /\ UNCHANGED <<pollVars, auxVars, escaped, todos, alarms, now, handler>>

\* Where a call goes once the alarms of the task are cleared
AfterCancel(c) ==
    IF call[c].op = "reschedule" /\ call[c].reminders # <<>> THEN "schedule" ELSE "done"

\* chrome.alarms.getAll() resolves; the alarms of the task are selected
CallGetAll(c) ==
    /\ call[c].pc = "getAll"
    /\ LET todoAlarms == {a.name : a \in TodoAlarms(alarms, call[c].todoId)}
       IN call' = [call EXCEPT ![c].todoAlarms = todoAlarms,
                               ![c].pc = IF todoAlarms = {} THEN AfterCancel(c) ELSE "clear"]
    /\ UNCHANGED <<pollVars, auxVars, escaped, todos, alarms, now, handler>>

\* await chrome.alarms.clear(alarm.name), one alarm of the list per turn
CallClear(c) ==
    /\ call[c].pc = "clear"
    /\ \E name \in call[c].todoAlarms :
          /\ alarms' = ClearAlarm(alarms, name)
          /\ call' = [call EXCEPT ![c].todoAlarms = @ \ {name},
                                  ![c].cleared = @ + 1,
                                  ![c].pc = IF call[c].todoAlarms = {name}
                                            THEN AfterCancel(c) ELSE "clear"]
    /\ UNCHANGED <<pollVars, auxVars, escaped, todos, now, handler>>

\* await scheduleReminder(todoId, startDate, reminderMinutes) of the loop
CallSchedule(c) ==
    /\ call[c].pc = "schedule"
    /\ LET reminderMinutes == call[c].reminders[call[c].i]
           reminderTime == ReminderTime(call[c].startDate, reminderMinutes)
           past == IsPast(reminderTime, now)
       IN /\ alarms' = IF past THEN alarms
                       ELSE CreateAlarm(alarms, AlarmName(call[c].todoId, reminderMinutes),
                                        reminderTime)
          /\ call' = [call EXCEPT ![c].i = @ + 1,
                                  ![c].dropped = IF past THEN @ + 1 ELSE @,
                                  ![c].pc = IF call[c].i = Len(call[c].reminders)
                                            THEN "done" ELSE "schedule"]
    /\ UNCHANGED <<pollVars, auxVars, escaped, todos, now, handler>>

CallReturn(c) ==
    /\ call[c].pc = "done"
    /\ call' = [call EXCEPT ![c] = IdleCall]
    /\ UNCHANGED <<pollVars, auxVars, escaped, todos, alarms, now, handler>>

\* History: something else happened while a call was in progress
Disturbed == [c \in Callers |-> IF call[c].pc = "idle" THEN call[c]
                                ELSE [call[c] EXCEPT !.clean = FALSE]]

----------------------------------------------------------------------------
(* Time, and the reminder branch of the onAlarm listener *)

ClockAdvance ==
    /\ now < MaxClock * Quarter
    /\ now' = now + Quarter
    /\ call' = Disturbed
    /\ UNCHANGED <<pollVars, auxVars, escaped, todos, alarms, handler>>

\* The alarm fires at or after its time and is gone; the listener calls
\* handleReminderAlarm(alarm.name), which splits the name and, with three
\* parts, awaits getTodos()
AlarmFires(a) ==
    /\ a \in alarms
    /\ a.when <= now
    /\ handler.pc = "idle"
    /\ StartsWith(a.name, ReminderPrefix)
    /\ alarms' = alarms \ {a}
    /\ LET parts == Split(a.name, "_")
       IN handler' = IF Len(parts) = 3
                     THEN [IdleHandler EXCEPT !.pc = "getTodos", !.alarmName = a.name,
                                              !.todoId = parts[2],
                                              !.reminderMinutes = ParseInt(parts[3])]
                     ELSE [IdleHandler EXCEPT !.pc = "done", !.alarmName = a.name]
    /\ call' = Disturbed
    /\ UNCHANGED <<pollVars, auxVars, escaped, todos, now>>

\* History: the task a reminder alarm was scheduled for
OwnerOf(name) ==
    CHOOSE id \in TaskIds : \E m \in LeadTimes : name = AlarmName(id, m)

\* History: the stored state of that task; no task for a name not built for one
OwnerState(name) ==
    IF \E id \in TaskIds, m \in LeadTimes : name = AlarmName(id, m)
    THEN todos[OwnerOf(name)] ELSE NoTodo

\* Mutant: the completed flag is not looked at
ShouldNotifyExisting(todo) == todo.exists

\* if (todo && !todo.completed)
ShouldNotify(todo) == todo.exists /\ ~todo.completed

\* What handleReminderAlarm keeps of a task: that it was found, and completed
\* (the title is TitleOf its id)
Seen(todo) == [todo EXCEPT !.startDate = 0, !.reminders = <<>>]

\* getTodos() resolves; the task is looked up
HandlerGetTodos ==
    /\ handler.pc = "getTodos"
    /\ LET todo == FindTodo(todos, handler.todoId)
       IN handler' = [handler EXCEPT !.todo = Seen(todo),
                                     !.ownerAtRead = Seen(OwnerState(handler.alarmName)),
                                     !.pc = IF ShouldNotify(todo) THEN "notify" ELSE "done"]
    /\ UNCHANGED <<pollVars, auxVars, escaped, todos, alarms, now, call>>

\* await chrome.notifications.create(alarmName, ...)
HandlerNotify ==
    /\ handler.pc = "notify"
    /\ handler' = [handler EXCEPT !.pc = "done", !.sent = @ + 1,
                                  !.message = TitleOf(handler.todoId) \o <<" commence dans ">>
                                              \o FormatReminderTime(handler.reminderMinutes)]
    /\ UNCHANGED <<pollVars, auxVars, escaped, todos, alarms, now, call>>

HandlerReturn ==
    /\ handler.pc = "done"
    /\ handler' = IdleHandler
    /\ UNCHANGED <<pollVars, auxVars, escaped, todos, alarms, now, call>>

RemSpecInit ==
    /\ server = [s \in Sources |-> <<>>]
    /\ snapshot = [s \in Sources |-> Absent]
    /\ githubSettings = [token |-> NoToken, columnId |-> NoColumn]
    /\ gmailAuth = FALSE
    /\ tick = [p \in Procs |-> Idle]
    /\ known = [s \in Sources |-> {}]
    /\ committed = [s \in Sources |-> NeverCommitted]
    /\ escaped = FALSE
    /\ RemInit

RemNext ==
    \/ \E id \in TaskIds : AddTodo(id)
    \/ \E id \in TaskIds : ToggleTodo(id)
    \/ \E id \in TaskIds : DeleteTodo(id)
    \/ \E c \in Callers, id \in TaskIds, startDate \in StartDates, reminders \in LeadLists :
          StartReschedule(c, id, startDate, reminders)
    \/ \E c \in Callers, id \in TaskIds : StartCancel(c, id)
    \/ \E c \in Callers : CallGetAll(c)
    \/ \E c \in Callers : CallClear(c)
    \/ \E c \in Callers : CallSchedule(c)
    \/ \E c \in Callers : CallReturn(c)
    \/ ClockAdvance
    \/ \E a \in alarms : AlarmFires(a)
    \/ HandlerGetTodos
    \/ HandlerNotify
    \/ HandlerReturn

\* The reminder service, the stored tasks and the reminder alarms
SpecRem == RemSpecInit /\ [][RemNext]_vars

SvcNext ==
    \/ \E c \in Callers, id \in TaskIds, startDate \in StartDates, reminders \in LeadLists :
          StartReschedule(c, id, startDate, reminders)
    \/ \E c \in Callers, id \in TaskIds : StartCancel(c, id)
    \/ \E c \in Callers, id \in TaskIds, startDate \in StartDates, m \in LeadTimes :
          StartSchedule(c, id, startDate, m)
    \/ \E c \in Callers : CallGetAll(c)
    \/ \E c \in Callers : CallClear(c)
    \/ \E c \in Callers : CallSchedule(c)
    \/ \E c \in Callers : CallReturn(c)
    \/ ClockAdvance
    \/ \E a \in alarms : AlarmFires(a)
    \/ HandlerGetTodos
    \/ HandlerReturn

\* The three calls of the reminder service on the alarms of a task that is
\* not in the list: its alarms fire without a notification
SpecSvc == RemSpecInit /\ [][SvcNext]_vars

----------------------------------------------------------------------------
(* Alarm names: what is built, what is parsed *)

\* Most alarms live at once where any name can be registered
MaxAlarms == 2

\* Task ids are opaque strings: one of them has an underscore
OpaqueIds == TaskIds \cup {<<"1", "_", "2">>}

\* Names under the reminder_ prefix that scheduleReminder does not build for
\* a task and a whole number of minutes
ForeignNames == {ReminderPrefix \o <<"1">>,
                 ReminderPrefix \o <<"1", "_", "x">>}

\* getUpcomingReminders(): the alarms under the prefix whose name has three parts
GetUpcomingReminders(all) ==
    {[todoId |-> Split(a.name, "_")[2],
      reminderMinutes |-> ParseInt(Split(a.name, "_")[3]),
      scheduledTime |-> a.when] :
        a \in {b \in all : StartsWith(b.name, ReminderPrefix) /\ Len(Split(b.name, "_")) = 3}}

\* An alarm under the prefix is registered elsewhere (chrome.alarms.create)
ForeignAlarm(name) ==
    /\ name \in ForeignNames
    /\ alarms' = CreateAlarm(alarms, name, now)
    /\ UNCHANGED <<pollVars, auxVars, escaped, todos, now, call, handler>>

FireNext ==
    \/ \E id \in TaskIds : AddTodo(id)
    \/ \E id \in TaskIds : ToggleTodo(id)
    \/ \E id \in TaskIds : DeleteTodo(id)
    \/ \E c \in Callers, id \in OpaqueIds, startDate \in StartDates, m \in LeadTimes :
          Cardinality(alarms) < MaxAlarms /\ StartSchedule(c, id, startDate, m)
    \/ \E c \in Callers : CallSchedule(c)
    \/ \E c \in Callers : CallReturn(c)
    \/ \E name \in ForeignNames : Cardinality(alarms) < MaxAlarms /\ ForeignAlarm(name)
    \/ ClockAdvance
    \/ \E a \in alarms : AlarmFires(a)
    \/ HandlerGetTodos
    \/ HandlerNotify
    \/ HandlerReturn

\* scheduleReminder for opaque task ids, alarms of any name under the prefix,
\* and the reminder branch of the listener
SpecFire == RemSpecInit /\ [][FireNext]_vars

----------------------------------------------------------------------------
(* Failing collaborators of the reminder branch *)

\* await getTodos() rejects: handleReminderAlarm has no try/catch, and the
\* listener awaits it without one; the rejection leaves the listener
HandlerGetTodosFails ==
    /\ handler.pc = "getTodos"
    /\ handler' = [handler EXCEPT !.pc = "done"]
    /\ escaped' = TRUE
    /\ UNCHANGED <<pollVars, auxVars, todos, alarms, now, call>>

\* await chrome.notifications.create(...) rejects
HandlerNotifyFails ==
    /\ handler.pc = "notify"
    /\ handler' = [handler EXCEPT !.pc = "done"]
    /\ escaped' = TRUE
    /\ UNCHANGED <<pollVars, auxVars, todos, alarms, now, call>>

FaultNext ==
    \/ \E id \in TaskIds : AddTodo(id)
    \/ \E id \in TaskIds : ToggleTodo(id)
    \/ \E id \in TaskIds : DeleteTodo(id)
    \/ \E c \in Callers, id \in TaskIds, startDate \in StartDates, m \in LeadTimes :
          StartSchedule(c, id, startDate, m)
    \/ \E c \in Callers : CallSchedule(c)
    \/ \E c \in Callers : CallReturn(c)
    \/ ClockAdvance
    \/ \E a \in alarms : AlarmFires(a)
    \/ HandlerGetTodos
    \/ HandlerGetTodosFails
    \/ HandlerNotify
    \/ HandlerNotifyFails
    \/ HandlerReturn

\* The reminder branch of the listener with a task store and a notification
\* service that can fail
SpecFault == RemSpecInit /\ [][FaultNext]_vars

----------------------------------------------------------------------------
(* Installation and the periodic refreshData alarm *)

\* chrome.alarms.create('refreshData', { periodInMinutes: 15 })
RefreshPeriod == 15 * MsPerMinute

\* The background script runs for the first time: its top level registers the
\* listeners, and onInstalled creates the periodic alarm, which fires for
\* the first time one period later. Nothing else is called.
Install ==
    /\ ~boot.installed
    /\ boot' = [boot EXCEPT !.installed = TRUE, !.nextTick = now + RefreshPeriod]
    /\ UNCHANGED <<pollVars, panel, pager, escaped, remVars>>

\* The refreshData alarm is due: the listener starts checkGitHubUpdates
PeriodicTick(p) ==
    /\ boot.installed
    /\ now >= boot.nextTick
    /\ \A q \in Procs : tick[q].pc = "idle"
    /\ p = 1
    /\ tick' = [tick EXCEPT ![p] = [Idle EXCEPT !.pc = "gh_settings",
                                                 !.cyc.before = snapshot["github"]]]
    /\ boot' = [boot EXCEPT !.nextTick = @ + RefreshPeriod, !.ticks = @ + 1,
                            !.polls = @ + 1]
    /\ UNCHANGED <<server, snapshot, githubSettings, gmailAuth, known, committed>>
    /\ UNCHANGED <<panel, pager, escaped, remVars>>

StartInit ==
    /\ server = [s \in Sources |-> <<"a">>]
    /\ snapshot \in [Sources -> {Absent, NotArray}]
    /\ githubSettings \in SettingsSet
    /\ gmailAuth \in BOOLEAN
    /\ tick = [p \in Procs |-> Idle]
    /\ known = [s \in Sources |-> {}]
    /\ committed = [s \in Sources |-> NeverCommitted]
    /\ escaped = FALSE
    /\ RemInit

StartNext ==
    \/ Install
    \/ ClockAdvance
    \/ \E p \in Procs : PeriodicTick(p)
    \/ \E p \in Procs : GitHubSettingsRead(p)
    \/ \E p \in Procs : GitHubFetch(p)
    \/ \E p \in Procs : GitHubStorageGet(p)
    \/ \E p \in Procs : GitHubNotify(p)
    \/ \E p \in Procs : GitHubStorageSet(p)
    \/ \E p \in Procs : GmailBegin(p)
    \/ \E p \in Procs : GmailToken(p)
    \/ \E p \in Procs : GmailFetch(p)
    \/ \E p \in Procs : GmailStorageGet(p)
    \/ \E p \in Procs : GmailNotify(p)
    \/ \E p \in Procs : GmailStorageSet(p)
    \/ \E p \in Procs : ListenerReturn(p)

\* The background worker from its installation on, with the clock
SpecStart == StartInit /\ [][StartNext]_vars

----------------------------------------------------------------------------
(* The to-do panel: handleSubmit, handleToggle, handleDelete *)

\* The start dates of the form; 0 stands for no start date (startDateTime undefined)
FormStartDates == StartDates \cup {0}

\* The lead times of the form: a chip adds its minutes when reminders does not
\* include them and removes them otherwise, so no lead time is listed twice
FormLeadLists ==
    {r \in LeadLists : \A i, j \in 1..Len(r) : r[i] = r[j] => i = j}

\* cancelReminders(todoId) starts with await chrome.alarms.getAll()
CancelEntry(todoId) ==
    [IdleCall EXCEPT !.pc = "getAll", !.op = "cancel", !.todoId = todoId]

\* if (startDateTime && reminders.length > 0)
HasReminders(startDateTime, reminders) == startDateTime # 0 /\ Len(reminders) > 0

PanelFree == panel.pc = "idle" /\ \A c \in Callers : call[c].pc = "idle"

\* Mutant: the lead times are not stored with the task
StoredRemindersDropped(startDateTime, reminders) == <<>>

\* startDate: startDateTime, reminders: startDateTime ? reminders : undefined
StoredReminders(startDateTime, reminders) ==
    IF startDateTime # 0 THEN reminders ELSE <<>>

\* handleSubmit without editingTodo: await addTodo(...), then the reminders
\* are scheduled when there is a start date and a lead time
SubmitNew(id, startDateTime, reminders) ==
    /\ PanelFree
    /\ ~todos[id].exists
    /\ todos' = [todos EXCEPT ![id] =
                    [Todo(FALSE) EXCEPT !.startDate = startDateTime,
                                        !.reminders = StoredReminders(startDateTime, reminders)]]
    /\ IF HasReminders(startDateTime, reminders)
       THEN /\ call' = [call EXCEPT ![1] = RescheduleEntry(1, id, startDateTime, reminders)]
            /\ panel' = [IdlePanel EXCEPT !.pc = "call", !.op = "add", !.id = id]
       ELSE /\ panel' = [IdlePanel EXCEPT !.pc = "end", !.op = "add", !.id = id]
            /\ UNCHANGED call
    /\ UNCHANGED <<pollVars, boot, pager, escaped, alarms, now, handler>>

\* handleSubmit with editingTodo, any task of the list: await updateTodo(...),
\* then rescheduleReminders or cancelReminders
SubmitEdit(id, startDateTime, reminders) ==
    /\ PanelFree
    /\ todos[id].exists
    /\ call' = [call EXCEPT ![1] = IF HasReminders(startDateTime, reminders)
                                   THEN RescheduleEntry(1, id, startDateTime, reminders)
                                   ELSE CancelEntry(id)]
    /\ panel' = [IdlePanel EXCEPT !.pc = "call", !.op = "edit", !.id = id,
                                  !.wasCompleted = todos[id].completed]
    /\ todos' = [todos EXCEPT ![id].startDate = startDateTime,
                              ![id].reminders = StoredReminders(startDateTime, reminders)]
    /\ UNCHANGED <<pollVars, boot, pager, escaped, alarms, now, handler>>

\* handleToggle: await toggleTodo(id); cancelReminders when the task was not completed
Toggle(id) ==
    /\ PanelFree
    /\ todos[id].exists
    /\ todos' = [todos EXCEPT ![id].completed = ~@]
    /\ IF ~todos[id].completed
       THEN /\ call' = [call EXCEPT ![1] = CancelEntry(id)]
            /\ panel' = [IdlePanel EXCEPT !.pc = "call", !.op = "toggle", !.id = id]
       ELSE /\ panel' = [IdlePanel EXCEPT !.pc = "end", !.op = "toggle", !.id = id,
                                          !.wasCompleted = TRUE]
            /\ UNCHANGED call
    /\ UNCHANGED <<pollVars, boot, pager, escaped, alarms, now, handler>>

\* handleDelete: await cancelReminders(id) first
Delete(id) ==
    /\ PanelFree
    /\ todos[id].exists
    /\ call' = [call EXCEPT ![1] = CancelEntry(id)]
    /\ panel' = [IdlePanel EXCEPT !.pc = "call", !.op = "delete", !.id = id,
                                  !.wasCompleted = todos[id].completed]
    /\ UNCHANGED <<pollVars, boot, pager, escaped, todos, alarms, now, handler>>

\* The awaited service call returns; handleDelete goes on with await deleteTodo(id)
PanelResume ==
    /\ panel.pc = "call"
    /\ call[1].pc = "done"
    /\ call' = [call EXCEPT ![1] = IdleCall]
    /\ panel' = [panel EXCEPT !.pc = "end"]
    /\ todos' = IF panel.op = "delete" THEN [todos EXCEPT ![panel.id] = NoTodo] ELSE todos
    /\ UNCHANGED <<pollVars, boot, pager, escaped, alarms, now, handler>>

\* setTodos(...), resetForm(): the handler returns
PanelReturn ==
    /\ panel.pc = "end"
    /\ panel' = IdlePanel
    /\ UNCHANGED <<pollVars, boot, pager, escaped, todos, alarms, now, call, handler>>

UINext ==
    \/ \E id \in TaskIds, startDateTime \in FormStartDates, reminders \in FormLeadLists :
          SubmitNew(id, startDateTime, reminders)
    \/ \E id \in TaskIds, startDateTime \in FormStartDates, reminders \in FormLeadLists :
          SubmitEdit(id, startDateTime, reminders)
    \/ \E id \in TaskIds : Toggle(id)
    \/ \E id \in TaskIds : Delete(id)
    \/ \E c \in Callers : CallGetAll(c)
    \/ \E c \in Callers : CallClear(c)
    \/ \E c \in Callers : CallSchedule(c)
    \/ PanelResume
    \/ PanelReturn
    \/ ClockAdvance
    \/ \E a \in alarms : AlarmFires(a)
    \/ HandlerGetTodos
    \/ HandlerNotify
    \/ HandlerReturn

\* The panel's handlers, one at a time, with the reminder service and the alarms
SpecUI == RemSpecInit /\ [][UINext]_vars

----------------------------------------------------------------------------
(* Properties of the poll *)

GitHubPcs == {"gh_settings", "gh_fetch", "gh_get", "gh_notify", "gh_set", "gh_end"}
GmailPcs == {"gm_token", "gm_fetch", "gm_get", "gm_notify", "gm_set", "gm_end"}
\* Positions between the filter and the commit
FilteredPcs == {"gh_notify", "gh_set", "gm_notify", "gm_set"}
Polling == {p \in Procs : tick[p].pc \in GitHubPcs \cup GmailPcs}

CycleSource(p) == IF tick[p].pc \in GitHubPcs THEN "github" ELSE "gmail"

IdsOf(items) == Range(MapId(items))

\* new is cur restricted, in order, to the positions whose id is not in prev
IsFilterOf(new, cur, prev) ==
    \E f \in [1..Len(new) -> 1..Len(cur)] :
        /\ \A k \in 1..Len(new) : new[k] = cur[f[k]]
        /\ \A k, l \in 1..Len(new) : k < l => f[k] < f[l]
        /\ \A i \in 1..Len(cur) :
              (\E k \in 1..Len(new) : f[k] = i) <=> ~(cur[i].id \in Range(prev))

\* C1: in both cycles the items treated as new are exactly the fetched items
\* whose id is not in the stored id list, in the order of the fetch, and
\* recomputing them from the same inputs gives the same list.
C1_NewItemsExact ==
    \A p \in Procs :
        tick[p].pc \in FilteredPcs =>
            /\ IsFilterOf(tick[p].cyc.newItems, tick[p].cyc.items, tick[p].cyc.lastKnownIds)
            /\ NewItems(tick[p].cyc.items, tick[p].cyc.lastKnownIds) = tick[p].cyc.newItems

\* A fetch of two items of which the stored list knows exactly the first
C1_Witness ==
    \E p \in Procs :
        /\ tick[p].pc \in FilteredPcs
        /\ Len(tick[p].cyc.items) = 2
        /\ tick[p].cyc.lastKnownIds # <<>>
        /\ tick[p].cyc.newItems = <<tick[p].cyc.items[2]>>

C3_FetchFailureContained ==
    \A p \in Procs :
        tick[p].cyc.outcome = "failed" =>
            /\ tick[p].pc \in {"gh_end", "gm_end"}
            /\ snapshot[CycleSource(p)] = tick[p].cyc.before
            /\ tick[p].cyc.sent = 0
            /\ ~escaped
            /\ tick[p].pc = "gh_end" => ENABLED GmailBegin(p)
            /\ tick[p].pc = "gm_end" => tick[p].ghOutcome # "none"

\* A tick whose GitHub fetch failed over a non-empty snapshot and whose Gmail
\* cycle then ran to its commit
C3_Witness ==
    \E p \in Procs :
        /\ tick[p].pc = "gm_end"
        /\ tick[p].ghOutcome = "failed"
        /\ tick[p].cyc.outcome = "committed"
        /\ snapshot["github"].ids # <<>>

\* C4: an id that is in the snapshot and stays at the source is never among
\* the new items of a later cycle, whatever fails in between.
C4_NeverNewAgain ==
    \A p \in Procs :
        tick[p].pc \in FilteredPcs =>
            IdsOf(tick[p].cyc.newItems) \cap known[CycleSource(p)] = {}

\* C5: a cycle that fetched dispatches one notification when there are new
\* items, whatever their number, and none when there are none.
C5_OneNotification ==
    \A p \in Procs :
        /\ tick[p].cyc.outcome = "committed" =>
              tick[p].cyc.sent = (IF Len(tick[p].cyc.newItems) > 0 THEN 1 ELSE 0)
        /\ tick[p].cyc.sent <= 1

\* A committed cycle with two new items and one notification
C5_Witness ==
    \E p \in Procs :
        /\ tick[p].cyc.outcome = "committed"
        /\ Len(tick[p].cyc.newItems) = 2
        /\ tick[p].cyc.sent = 1

\* What the notification says of the first new item when it is the only one
Summary(src, item) ==
    IF src = "github" THEN <<item.title>>
    ELSE <<"De: ", item.from, "\n", item.subject>>

SingularTitle(src) ==
    IF src = "github" THEN <<"Nouvelle tache GitHub">> ELSE <<"Nouveau mail recu">>

HasPart(text, part) == \E i \in 1..Len(text) : text[i] = part

\* title and body of a GitHub-style summary of k new items
CountedSummary(src, notif, new) ==
    LET k == Len(new)
        first == Summary(src, new[1])
    IN IF k = 1
       THEN notif.title = SingularTitle(src) /\ notif.message = first
       ELSE /\ HasPart(notif.title, ToString(k))
            /\ Len(notif.message) > Len(first)
            /\ SubSeq(notif.message, 1, Len(first)) = first
            /\ HasPart(SubSeq(notif.message, Len(first) + 1, Len(notif.message)),
                       ToString(k - 1))

\* C6 as stated: for both sources the body of a notification for k > 1 new
\* items is the first item's summary followed by a suffix giving k - 1.
C6_SuffixBothSources ==
    \A p \in Procs :
        tick[p].cyc.sent = 1 =>
            CountedSummary(CycleSource(p), tick[p].cyc.notif, tick[p].cyc.newItems)

\* C6 amended: GitHub's notification is as stated; Gmail's has the singular
\* title and the sender and subject of the mail for k = 1, and for k > 1 a
\* title with the count k and a body that names the first new mail's sender
\* only, with no count of the others.
C6_SummaryPerSource ==
    \A p \in Procs :
        tick[p].cyc.sent = 1 =>
            LET new == tick[p].cyc.newItems
                notif == tick[p].cyc.notif
            IN IF CycleSource(p) = "github" \/ Len(new) = 1
               THEN CountedSummary(CycleSource(p), notif, new)
               ELSE /\ HasPart(notif.title, ToString(Len(new)))
                    /\ notif.message = <<"Dernier de: ", new[1].from>>
                    /\ ~HasPart(notif.message, ToString(Len(new) - 1))

\* Both sources have notified of two new items at once
C6_Witness ==
    \E p \in Procs :
        /\ tick[p].pc = "gm_set"
        /\ tick[p].cyc.sent = 1
        /\ Len(tick[p].cyc.newItems) = 2
        /\ tick[p].ghOutcome = "committed"
        /\ Len(snapshot["github"].ids) = 2

\* C7: a source without configuration is skipped: nothing is fetched or
\* dispatched, its snapshot stays, no error leaves the listener, and the
\* other source's cycle runs (Gmail's is next after a GitHub skip, GitHub's
\* has run before a Gmail skip). A fetch is only awaited when configured.
C7_UnconfiguredSkipped ==
    \A p \in Procs :
        /\ tick[p].cyc.outcome = "skipped" =>
              /\ tick[p].pc \in {"gh_end", "gm_end"}
              /\ ~tick[p].cyc.fetched
              /\ tick[p].cyc.sent = 0
              /\ snapshot[CycleSource(p)] = tick[p].cyc.before
              /\ ~escaped
              /\ tick[p].pc = "gh_end" =>
                    /\ Falsy(githubSettings.token) \/ Falsy(githubSettings.columnId)
                    /\ ENABLED GmailBegin(p)
              /\ tick[p].pc = "gm_end" => ~gmailAuth /\ tick[p].ghOutcome # "none"
        /\ tick[p].pc \in {"gh_fetch", "gh_get", "gh_notify", "gh_set"} =>
              ~Falsy(githubSettings.token) /\ ~Falsy(githubSettings.columnId)
        /\ tick[p].pc \in {"gm_fetch", "gm_get", "gm_notify", "gm_set"} => gmailAuth
        /\ (tick[p].pc = "gh_end" /\ tick[p].cyc.outcome # "skipped") =>
              ~Falsy(githubSettings.token) /\ ~Falsy(githubSettings.columnId)

\* GitHub has a token and no column and was skipped; Gmail notified and committed
C7_Witness ==
    \E p \in Procs :
        /\ tick[p].pc = "gm_end"
        /\ tick[p].ghOutcome = "skipped"
        /\ ~Falsy(githubSettings.token)
        /\ tick[p].cyc.outcome = "committed"
        /\ tick[p].cyc.sent = 1

C18_CommitLoadRoundTrip ==
    /\ \A src \in Sources :
          IF committed[src].any
          THEN snapshot[src].kind = "array" /\ LastKnownIds(snapshot[src]) = committed[src].ids
          ELSE snapshot[src] \in {Absent, NotArray}
    /\ \A p \in Procs :
          (tick[p].pc \in FilteredPcs /\ committed[CycleSource(p)].any) =>
              tick[p].cyc.lastKnownIds = committed[CycleSource(p)].ids

\* A Gmail cycle has loaded the two ids of its last commit while GitHub's
\* last commit was another list
C18_Witness ==
    \E p \in Procs :
        /\ tick[p].pc \in {"gm_notify", "gm_set"}
        /\ committed["gmail"].any
        /\ Len(tick[p].cyc.lastKnownIds) = 2
        /\ tick[p].cyc.lastKnownIds = committed["gmail"].ids
        /\ committed["github"].any
        /\ committed["github"].ids # committed["gmail"].ids

----------------------------------------------------------------------------
(* Properties of the reminders *)

\* C8: handleReminderAlarm dispatches at most one notification, and only when
\* the task the alarm was scheduled for existed and was not completed at the
\* moment getTodos() resolved; for a deleted or a completed task it ends
\* having dispatched nothing and without an error.
C8_NotifyOnlyLiveTask ==
    /\ handler.sent <= 1
    /\ handler.sent = 1 => handler.ownerAtRead = Todo(FALSE)
    /\ handler.pc = "notify" => handler.ownerAtRead = Todo(FALSE)
    /\ (handler.pc = "done" /\ handler.alarmName # <<>>
          /\ handler.ownerAtRead # Todo(FALSE)) => (handler.sent = 0 /\ ~escaped)

\* The alarm of a task that was completed when the handler read the list has
\* been handled without a notification
C8_Witness ==
    /\ handler.pc = "done"
    /\ handler.alarmName # <<>>
    /\ handler.ownerAtRead = Todo(TRUE)
    /\ handler.sent = 0

\* The lead times of a call whose reminder time is still ahead
FutureLeads(c) ==
    {m \in Range(call[c].reminders) : ReminderTime(call[c].startDate, m) > now}

\* C9: when rescheduleReminders has completed with nothing interleaved, the
\* live alarms of the task are exactly one per lead time of the call whose
\* reminder time is in the future, named for that lead time and set to that
\* time; no alarm of an earlier call remains.
C9_RescheduleExact ==
    \A c \in Callers :
        (call[c].pc = "done" /\ call[c].op = "reschedule" /\ call[c].clean) =>
            TodoAlarms(alarms, call[c].todoId) =
                {[name |-> AlarmName(call[c].todoId, m),
                  when |-> ReminderTime(call[c].startDate, m)] : m \in FutureLeads(c)}

\* A call with [30] has replaced the two alarms of an earlier call by one
C9_Witness ==
    \E c \in Callers :
        /\ call[c].pc = "done"
        /\ call[c].op = "reschedule"
        /\ call[c].clean
        /\ call[c].reminders = <<30>>
        /\ call[c].cleared = 2
        /\ Cardinality(TodoAlarms(alarms, call[c].todoId)) = 1
        /\ \E a \in alarms : a.name = AlarmName(call[c].todoId, 30)

\* C10: a scheduleReminder whose reminder time is not after now leaves the
\* live alarms as they are and starts no handler: nothing is registered and
\* nothing is notified for the past reminder.
C10_PastReminderDropped ==
    [][\A c \in Callers :
          (/\ call[c].pc = "schedule"
           /\ call'[c].i = call[c].i + 1
           /\ ReminderTime(call[c].startDate, call[c].reminders[call[c].i]) <= now)
          => (alarms' = alarms /\ handler' = handler /\ escaped' = escaped)]_vars

\* A call has dropped a reminder due exactly now and registered another one
C10_Witness ==
    \E c \in Callers :
        /\ call[c].pc = "done"
        /\ call[c].clean
        /\ call[c].dropped = 1
        /\ \E k \in 1..Len(call[c].reminders) :
              ReminderTime(call[c].startDate, call[c].reminders[k]) = now
        /\ TodoAlarms(alarms, call[c].todoId) # {}

\* C12: at most one live alarm exists per pair of task and lead time, also
\* after scheduleReminder is called again for a pair and after a reschedule
\* whose list has a lead time twice; distinct pairs have distinct alarms.
C12_OneTimerPerPair ==
    /\ \A id \in TaskIds, m \in LeadTimes :
          Cardinality({a \in alarms : a.name = AlarmName(id, m)}) <= 1
    /\ \A a \in alarms : \E id \in TaskIds, m \in LeadTimes : a.name = AlarmName(id, m)
    /\ \A id1, id2 \in TaskIds, m1, m2 \in LeadTimes :
          AlarmName(id1, m1) = AlarmName(id2, m2) => (id1 = id2 /\ m1 = m2)

\* A reschedule with the same lead time twice has left one alarm
C12_Witness ==
    \E c \in Callers :
        /\ call[c].pc = "done"
        /\ call[c].op = "reschedule"
        /\ call[c].clean
        /\ call[c].reminders = <<15, 15>>
        /\ call[c].dropped = 0
        /\ Cardinality(alarms) = 1

\* C14: when cancelReminders has completed with nothing interleaved, no live
\* alarm of the task remains, whatever lead times it had alarms for.
C14_CancelClearsAll ==
    \A c \in Callers :
        (call[c].pc = "done" /\ call[c].op = "cancel" /\ call[c].clean) =>
            ~\E a \in alarms : \E m \in LeadTimes : a.name = AlarmName(call[c].todoId, m)

\* A cancel has cleared the two alarms the task had
C14_Witness ==
    \E c \in Callers :
        /\ call[c].pc = "done"
        /\ call[c].op = "cancel"
        /\ call[c].clean
        /\ call[c].cleared = 2
        /\ alarms = {}

\* C15: a scheduleReminder whose reminder time startDate - minutes * 60000 is
\* after now registers the alarm named for the task and the lead time, set
\* to exactly that time, and changes no alarm of another name.
C15_FutureReminderRegistered ==
    [][\A c \in Callers :
          (/\ call[c].pc = "schedule"
           /\ call'[c].i = call[c].i + 1
           /\ call[c].startDate - call[c].reminders[call[c].i] * 60000 > now)
          => LET m == call[c].reminders[call[c].i]
                 a == [name |-> AlarmName(call[c].todoId, m),
                       when |-> call[c].startDate - m * 60000]
             IN /\ a \in alarms'
                /\ \A b \in alarms' : b.name = a.name => b = a
                /\ {b \in alarms' : b.name # a.name} = {b \in alarms : b.name # a.name}]_vars

\* scheduleReminder("1", 75 minutes, 15) at time 0 has registered
\* reminder_1_15 for the 60th minute
C15_Witness ==
    \E c \in Callers :
        /\ call[c].pc = "done"
        /\ call[c].op = "schedule"
        /\ call[c].clean
        /\ call[c].startDate = 4500000
        /\ now = 0
        /\ alarms = {[name |-> <<"r", "e", "m", "i", "n", "d", "e", "r", "_", "1", "_", "1", "5">>,
                      when |-> 3600000]}

\* C13: the name scheduleReminder builds for a task id and a lead time is
\* parsed back into that id and that lead time, by handleReminderAlarm when
\* the alarm fires and by getUpcomingReminders while it is live.
C13_NameRoundTrip ==
    \A id \in OpaqueIds, m \in LeadTimes :
        /\ (handler.pc # "idle" /\ handler.alarmName = AlarmName(id, m)) =>
              (handler.todoId = id /\ handler.reminderMinutes = [nan |-> FALSE, value |-> m])
        /\ \A a \in alarms :
              a.name = AlarmName(id, m) =>
                  [todoId |-> id, reminderMinutes |-> [nan |-> FALSE, value |-> m],
                   scheduledTime |-> a.when] \in GetUpcomingReminders(alarms)

\* The fired alarm's name has the wrong number of parts or a last part that
\* is not a number
Malformed(name) ==
    \/ Len(Split(name, "_")) # 3
    \/ ParseInt(Split(name, "_")[3]).nan

\* C16: a fired alarm under the prefix whose name does not parse into a task
\* id and a whole lead time leads to no notification and no error.
C16_MalformedIgnored ==
    (handler.pc # "idle" /\ Malformed(handler.alarmName)) =>
        (handler.pc # "notify" /\ handler.sent = 0 /\ ~escaped)

\* C19: no failure of a collaborator during the handling of an alarm leaves
\* the listener as an uncaught error.
C19_NoEscape == ~escaped

\* C20: a poll of both sources runs once when the background process
\* starts, next to the one of every refreshData tick: by the time the alarm
\* has fired n >= 1 times, n + 1 polls have begun.
C20_PollAtStart ==
    (boot.installed /\ boot.ticks >= 1) => boot.polls >= boot.ticks + 1

----------------------------------------------------------------------------
(* Properties of the panel *)

\* C11: whenever no handler of the panel and no service call is in progress,
\* a task whose completed flag is true has no live reminder alarm.
C11_CompletedNoTimers ==
    PanelFree =>
        \A id \in TaskIds :
            todos[id].completed =>
                ~\E a \in alarms : \E m \in LeadTimes : a.name = AlarmName(id, m)


----------------------------------------------------------------------------
(* Overlapping ticks and fetches that never return *)

\* The next refreshData tick fires while an earlier invocation of the listener
\* is still suspended in a fetch: the listener has no guard, a second
\* invocation starts checkGitHubUpdates
OverlapAlarm(p) ==
    /\ tick[p].pc = "idle"
    /\ \E q \in Procs \ {p} : tick[q].pc \in {"gh_fetch", "gm_fetch"}
    /\ tick' = [tick EXCEPT ![p] = [Idle EXCEPT !.pc = "gh_settings",
                                                 !.cyc.before = snapshot["github"]]]
    /\ UNCHANGED <<server, snapshot, githubSettings, gmailAuth, known, escaped>>
    /\ UNCHANGED <<remVars, auxVars, committed>>

\* The steps of one listener invocation that resume by themselves: everything
\* but the two fetches, which no timeout bounds
ListenerStep(p) ==
    \/ GitHubSettingsRead(p)
    \/ GitHubStorageGet(p)
    \/ GitHubNotify(p)
    \/ GitHubStorageSet(p)
    \/ GmailBegin(p)
    \/ GmailToken(p)
    \/ GmailStorageGet(p)
    \/ GmailNotify(p)
    \/ GmailStorageSet(p)
    \/ ListenerReturn(p)

\* One item stays present at each source
OverlapInit ==
    /\ server = [s \in Sources |-> <<"a">>]
    /\ snapshot = [s \in Sources |-> Absent]
    /\ githubSettings \in SettingsSet
    /\ gmailAuth \in BOOLEAN
    /\ tick = [p \in Procs |-> Idle]
    /\ known = [s \in Sources |-> {}]
    /\ committed = [s \in Sources |-> NeverCommitted]
    /\ escaped = FALSE
    /\ RemInit

OverlapNext ==
    \/ \E p \in Procs : RefreshAlarm(p)
    \/ \E p \in Procs : OverlapAlarm(p)
    \/ \E p \in Procs : GitHubSettingsRead(p)
    \/ \E p \in Procs : GitHubFetch(p)
    \/ \E p \in Procs : GitHubStorageGet(p)
    \/ \E p \in Procs : GitHubNotify(p)
    \/ \E p \in Procs : GitHubStorageSet(p)
    \/ \E p \in Procs : GmailBegin(p)
    \/ \E p \in Procs : GmailToken(p)
    \/ \E p \in Procs : GmailFetch(p)
    \/ \E p \in Procs : GmailStorageGet(p)
    \/ \E p \in Procs : GmailNotify(p)
    \/ \E p \in Procs : GmailStorageSet(p)
    \/ \E p \in Procs : ListenerReturn(p)

\* Every step but a fetch is taken once it can be; a fetch may never return
SpecOverlap ==
    /\ OverlapInit
    /\ [][OverlapNext]_vars
    /\ \A p \in Procs : WF_vars(ListenerStep(p))

----------------------------------------------------------------------------
(* Properties of overlapping and hung poll cycles *)

\* C21: a fetch of one source that never returns delays only that source's
\* cycle: once a tick has started its GitHub fetch, the Gmail cycle of the same
\* tick is eventually executed, whether or not the GitHub fetch returns.
C21_HungFetchOtherSourceRuns ==
    \A p \in Procs : (tick[p].pc = "gh_fetch") ~> (tick[p].pc \in GmailPcs)

\* C24: when a tick fires while the previous tick's cycle for the same source
\* is still awaiting its fetch, an item that stays present at the source is
\* reported as new in at most one notification: no two invocations have both
\* dispatched a notification for the same source that counts the same id.
C24_OverlapReportsOnce ==
    \A src \in Sources, id \in Ids :
        Cardinality({p \in Procs : /\ tick[p].pc \in GitHubPcs \cup GmailPcs
                                   /\ CycleSource(p) = src
                                   /\ tick[p].cyc.sent = 1
                                   /\ id \in IdsOf(tick[p].cyc.newItems)}) <= 1


----------------------------------------------------------------------------
(* Properties of the panel racing with the alarms *)

\* C22: when completing a task races with one of its timers firing, a handler
\* invocation that read the task list after the completion was persisted
\* dispatches no notification, whether or not cancelReminders has already
\* cleared the timer.
C22_CompletedAtReadSilent ==
    (handler.ownerAtRead.exists /\ handler.ownerAtRead.completed) =>
        (handler.pc # "notify" /\ handler.sent = 0)

\* handleToggle has persisted the completion and its cancelReminders has not
\* finished; the timer fired meanwhile and its handler ended without a notification
C22_Witness ==
    /\ panel.op = "toggle"
    /\ panel.pc = "call"
    /\ call[1].op = "cancel"
    /\ call[1].pc \in {"getAll", "clear"}
    /\ handler.pc = "done"
    /\ handler.todoId = panel.id
    /\ handler.ownerAtRead.completed
    /\ handler.sent = 0

C28_ReactivatedNoTimers ==
    [][\A id \in TaskIds :
          (todos[id].completed /\ todos'[id].exists /\ ~todos'[id].completed) =>
              ~\E a \in alarms' : \E m \in LeadTimes : a.name = AlarmName(id, m)]_vars


----------------------------------------------------------------------------
(* Properties of an id that returns *)

----------------------------------------------------------------------------
(* Two calls of rescheduleReminders in flight *)

\* rescheduleReminders is called while another call of it may be suspended at
\* one of its awaits: nothing in the service or in handleSubmit serialises them
StartRace(c, todoId, startDate, reminders) ==
    /\ call[c].pc = "idle"
    /\ call' = [call EXCEPT ![c] = RescheduleEntry(c, todoId, startDate, reminders)]
    /\ UNCHANGED <<pollVars, auxVars, escaped, todos, alarms, now, handler>>

\* Both calls have returned to their callers
RaceReturn ==
    /\ \A c \in Callers : call[c].pc = "done"
    /\ call' = [c \in Callers |-> IdleCall]
    /\ UNCHANGED <<pollVars, auxVars, escaped, todos, alarms, now, handler>>

RaceNext ==
    \/ \E c \in Callers, id \in TaskIds, startDate \in StartDates, reminders \in FormLeadLists :
          StartRace(c, id, startDate, reminders)
    \/ \E c \in Callers : CallGetAll(c)
    \/ \E c \in Callers : CallClear(c)
    \/ \E c \in Callers : CallSchedule(c)
    \/ RaceReturn

SpecRace == RemSpecInit /\ [][RaceNext]_vars

\* C26: for every interleaving of two rescheduleReminders calls on the same
\* task, the live timers of the task after both calls have finished are exactly
\* the future lead times of one of the two calls, never a union of both.
C26_RaceLeavesOneCall ==
    (/\ \A c \in Callers : call[c].pc = "done" /\ call[c].op = "reschedule"
     /\ call[1].todoId = call[2].todoId) =>
        \E c \in Callers :
            TodoAlarms(alarms, call[c].todoId) =
                {[name |-> AlarmName(call[c].todoId, m),
                  when |-> ReminderTime(call[c].startDate, m)] : m \in FutureLeads(c)}


----------------------------------------------------------------------------
(* cancelReminders among the alarms of other tasks *)

\* The name of the poll alarm
RefreshDataName == <<"r", "e", "f", "r", "e", "s", "h", "D", "a", "t", "a">>

\* chrome.alarms.create('refreshData', { periodInMinutes: 15 })
CreateRefreshAlarm ==
    /\ alarms' = CreateAlarm(alarms, RefreshDataName, now + RefreshPeriod)
    /\ UNCHANGED <<pollVars, auxVars, escaped, todos, now, call, handler>>

CancelNext ==
    \/ CreateRefreshAlarm
    \/ \E c \in Callers, id \in OpaqueIds, startDate \in StartDates, m \in LeadTimes :
          StartSchedule(c, id, startDate, m)
    \/ \E c \in Callers, id \in OpaqueIds : StartCancel(c, id)
    \/ \E c \in Callers : CallGetAll(c)
    \/ \E c \in Callers : CallClear(c)
    \/ \E c \in Callers : CallSchedule(c)
    \/ \E c \in Callers : CallReturn(c)

\* scheduleReminder and cancelReminders for opaque task ids, next to the poll alarm
SpecCancel == RemSpecInit /\ [][CancelNext]_vars

\* C27: cancelReminders(taskId) clears no timer that belongs to a different
\* task and never clears the refreshData poll timer, for every pair of task
\* ids, including a pair where the other id is taskId, an underscore and more.
C27_CancelOwnTimersOnly ==
    [][\A c \in Callers :
          (call[c].op = "cancel" /\ call[c].pc = "clear") =>
              \A a \in alarms \ alarms' :
                  /\ a.name # RefreshDataName
                  /\ ~\E id \in OpaqueIds \ {call[c].todoId}, m \in LeadTimes :
                         a.name = AlarmName(id, m)]_vars


----------------------------------------------------------------------------
(* fetchProjectV2Issues: the pagination loop *)

\* items(first: 100, after: $cursor)
PageSize == 100

\* if (pagesWithoutMatches >= 2 && issues.length > 0) break
EmptyPagesStop == 2

\* if (totalItemsScanned >= 500) break
ScanLimit == 500

\* The numbers of items a page of the server can hold
PageCounts == {0, PageSize \div 2, PageSize}

\* Mutant: two pages without a match stop the loop, found issues or not
StopEarlyAny(pagesWithoutMatches, issues) == pagesWithoutMatches >= EmptyPagesStop

\* pagesWithoutMatches >= 2 && issues.length > 0
StopEarly(pagesWithoutMatches, issues) ==
    pagesWithoutMatches >= EmptyPagesStop /\ issues > 0

\* pagesWithoutMatches++ ; the loop compares the counter with 2 only, the
\* model holds it there
CountEmptyPage(pagesWithoutMatches) ==
    IF pagesWithoutMatches < EmptyPagesStop THEN pagesWithoutMatches + 1
    ELSE pagesWithoutMatches

\* fetchColumnCards calls fetchProjectV2Issues: the locals are initialised and
\* while (hasNextPage) is entered
StartFetchV2 ==
    /\ pager.pc = "idle"
    /\ pager' = [IdlePager EXCEPT !.pc = "loop"]
    /\ UNCHANGED <<pollVars, panel, boot, escaped, remVars>>

\* while (hasNextPage): await fetch(graphql) with the cursor requests a page
PageRequest ==
    /\ pager.pc = "loop"
    /\ pager' = [pager EXCEPT !.pc = "await"]
    /\ UNCHANGED <<pollVars, panel, boot, escaped, remVars>>

\* The server answers with items nodes, of which found match the column and
\* have content, and with pageInfo.hasNextPage; the counters are updated and
\* the two breaks tested
PageResponse(items, found, next) ==
    /\ pager.pc = "await"
    /\ found <= items
    /\ LET total == pager.totalItemsScanned + items
           issues == pager.issues + found
           without == IF found = 0 THEN CountEmptyPage(pager.pagesWithoutMatches) ELSE 0
       IN pager' = [pc |-> IF StopEarly(without, issues) \/ total >= ScanLimit \/ ~next
                           THEN "done" ELSE "loop",
                    issues |-> issues,
                    hasNextPage |-> next,
                    totalItemsScanned |-> total,
                    pagesWithoutMatches |-> without]
    /\ UNCHANGED <<pollVars, panel, boot, escaped, remVars>>

\* !response.ok or data.errors: the function throws out of the loop
PageThrows ==
    /\ pager.pc = "await"
    /\ pager' = [pager EXCEPT !.pc = "thrown"]
    /\ UNCHANGED <<pollVars, panel, boot, escaped, remVars>>

\* return issues, or the rejection reaches the caller
PagerReturn ==
    /\ pager.pc \in {"done", "thrown"}
    /\ pager' = IdlePager
    /\ UNCHANGED <<pollVars, panel, boot, escaped, remVars>>

PageNext ==
    \/ StartFetchV2
    \/ PageRequest
    \/ \E items \in PageCounts, found \in 0..1, next \in BOOLEAN :
          PageResponse(items, found, next)
    \/ PageThrows
    \/ PagerReturn

\* Every request is answered: the server goes on answering with pages
PageAnswered ==
    \E items \in PageCounts, found \in 0..1, next \in BOOLEAN :
        PageResponse(items, found, next)

SpecPage ==
    /\ RemSpecInit
    /\ [][PageNext]_vars
    /\ WF_vars(PageRequest)
    /\ WF_vars(PageAnswered)

----------------------------------------------------------------------------
(* Properties of the pagination *)

\* C29 as stated: fetchProjectV2Issues stops requesting further pages as soon
\* as 2 consecutive pages contained no matching item: it is never about to
\* request a page after two consecutive pages without a match.
C29_StopsAfterTwoEmptyPages ==
    pager.pc \in {"loop", "await"} => pager.pagesWithoutMatches < 2

\* C29 amended: the loop requests a further page exactly while the server
\* reported a next page, fewer than 500 items have been scanned, and it is not
\* the case that the last 2 pages had no match while an issue has been found;
\* when it has stopped, one of these three conditions has failed.
C29_StopsWhenDue ==
    /\ pager.pc \in {"loop", "await"} =>
          /\ pager.hasNextPage
          /\ pager.totalItemsScanned < 500
          /\ ~(pager.pagesWithoutMatches >= 2 /\ pager.issues > 0)
    /\ pager.pc = "done" =>
          \/ ~pager.hasNextPage
          \/ pager.totalItemsScanned >= 500
          \/ (pager.pagesWithoutMatches >= 2 /\ pager.issues > 0)

\* The loop has stopped on two pages without a match after it had found an
\* issue, with a next page reported and fewer than 500 items scanned
C29_Witness ==
    /\ pager.pc = "done"
    /\ pager.hasNextPage
    /\ pager.totalItemsScanned < 500
    /\ pager.pagesWithoutMatches >= 2
    /\ pager.issues > 0

\* C30: the pagination loop terminates for every sequence of successful page
\* responses, pages without items that report hasNextPage = true included: a
\* loop that has been entered is eventually left.
C30_PaginationTerminates ==
    (pager.pc = "loop") ~> (pager.pc \in {"done", "thrown"})

====
